---- MODULE Spec2Model ----
(***************************************************************************)
(* Model of src/data_fetcher.py: the satellite image fetching pipeline.    *)
(*                                                                         *)
(* One process run is: module import (load_dotenv, the MAPBOX_TOKEN check),*)
(* main() loading and validating the CSV, then the download loop over      *)
(* df.iterrows().  The image directory is the only state that survives a   *)
(* run.  Python values are modelled with their type, because the path of   *)
(* an image is made by formatting row["id"] AFTER iterrows() has put the   *)
(* row's cells into one Series of a single dtype.                          *)
(***************************************************************************)
EXTENDS Integers, Sequences, FiniteSets, TLC

VARIABLES
    pc,          \* position of the process: import, main, loop, sleep, done, aborted, crashed
    token,       \* os.getenv("MAPBOX_TOKEN")
    csv,         \* the table pd.read_csv(DATA_CSV_PATH) returns: [columns, rows]
    files,       \* the image directory: path -> content
    df,          \* main's df after projection and deduplication
    idx,         \* number of rows the for loop has taken from df.iterrows()
    downloaded,  \* main's counter
    status,      \* per row of df, this run: none, skipped, ok, fail, raised
    requests,    \* requests.get calls issued this run
    sleeps,      \* time.sleep calls made this run
    resp,        \* the request made by the last step and its outcome
    out,         \* lines printed by the last step
    exc,         \* the exception that ended the run, if any
    files0,      \* the image directory as it was when this run started
    run,         \* number of this run of the program
    prevOk,      \* rows whose fetch returned True in an earlier run
    prevFail     \* rows whose fetch returned False in the previous run

vars == <<pc, token, csv, files, df, idx, downloaded, status, requests, sleeps,
          resp, out, exc, files0, run, prevOk, prevFail>>

-----------------------------------------------------------------------------
(* Bounds of the model *)

MaxRows == 3
MAX_IMAGES == 2
MaxRuns == 2

-----------------------------------------------------------------------------
(* Configuration, lines 14-30 *)

DATA_CSV_PATH == "data/processed/train_with_images.csv"
IMAGE_DIR == "data/images"
MAPBOX_STYLE == "satellite-v9"
ZOOM_LEVEL == 18
IMAGE_SIZE == "256x256"
None == "None"
TestToken == "pk.test"

-----------------------------------------------------------------------------
(* Python values.  A cell is a typed scalar.  An integer is hi * 2^53 + lo  *)
(* (0 <= lo < 8 when hi = 1), so that int64 values beyond the 53-bit       *)
(* mantissa of a float64 can be written down.                              *)

PyInt(hi, lo) == [t |-> "int", hi |-> hi, lo |-> lo, s |-> ""]
PyFloat(hi, lo) == [t |-> "float", hi |-> hi, lo |-> lo, s |-> ""]
PyString(s) == [t |-> "str", hi |-> 0, lo |-> 0, s |-> s]
NaN == [t |-> "nan", hi |-> 0, lo |-> 0, s |-> ""]

IsNull(v) == v.t = "nan"

\* int64 -> float64, round to nearest, ties to even.  Below 2^53 every
\* integer is exact; in [2^53, 2^54) only the even ones are.
RoundLo(lo) ==
    IF lo % 2 = 0 THEN lo
    ELSE IF ((lo - 1) \div 2) % 2 = 0 THEN lo - 1 ELSE lo + 1

ToFloat64(v) ==
    IF v.t = "int"
    THEN IF v.hi = 0 THEN PyFloat(0, v.lo) ELSE PyFloat(v.hi, RoundLo(v.lo))
    ELSE v

\* Decimal digits of hi * 2^53 + lo; 2^53 = 9007199254740992.
Digits(hi, lo) ==
    IF hi = 0 THEN ToString(lo) ELSE "900719925474099" \o ToString(2 + lo)

\* What an f-string makes of a value: str(), and for a float the repr with
\* its fractional part (all floats here are whole numbers below 1e16).
PyFormat(v) ==
    CASE v.t = "str" -> v.s
      [] v.t = "int" -> Digits(v.hi, v.lo)
      [] v.t = "float" -> Digits(v.hi, v.lo) \o ".0"
      [] OTHER -> "nan"

-----------------------------------------------------------------------------
(* pandas *)

RequiredColumns == {"id", "lat", "long"}

\* dtype of a column, as read_csv infers it from the cells.
ColumnDtype(rows, c) ==
    IF \E i \in 1..Len(rows) : rows[i][c].t = "str" THEN "object"
    ELSE IF \E i \in 1..Len(rows) : rows[i][c].t \in {"float", "nan"} THEN "float64"
    ELSE "int64"

\* df[["id", "lat", "long"]]
Project(rows) ==
    [i \in 1..Len(rows) |-> [c \in RequiredColumns |-> rows[i][c]]]

HasNullLatOnly(rows) ==
    \E i \in 1..Len(rows) : IsNull(rows[i]["lat"])

\* df[["lat", "long"]].isnull().any().any()
HasNullCoords(rows) ==
    \E i \in 1..Len(rows) : IsNull(rows[i]["lat"]) \/ IsNull(rows[i]["long"])

RECURSIVE DropFrom(_, _, _)
DropFrom(rows, i, seen) ==
    IF i > Len(rows) THEN <<>>
    ELSE IF rows[i]["id"] \in seen THEN DropFrom(rows, i + 1, seen)
    ELSE <<rows[i]>> \o DropFrom(rows, i + 1, seen \cup {rows[i]["id"]})

RECURSIVE DropKeepLastFrom(_, _)
DropKeepLastFrom(rows, i) ==
    IF i > Len(rows) THEN <<>>
    ELSE IF \E j \in (i + 1)..Len(rows) : rows[j]["id"] = rows[i]["id"]
         THEN DropKeepLastFrom(rows, i + 1)
         ELSE <<rows[i]>> \o DropKeepLastFrom(rows, i + 1)

DropDuplicatesKeepLast(rows) == DropKeepLastFrom(rows, 1)

\* df.drop_duplicates(subset="id").reset_index(drop=True): keep="first"
DropDuplicates(rows) == DropFrom(rows, 1, {})

\* df["id"].duplicated().any()
Duplicated(rows) ==
    \E i, j \in 1..Len(rows) : i < j /\ rows[i]["id"] = rows[j]["id"]

\* The dtype of the Series iterrows() builds for a row: the common dtype of
\* the frame's columns.
RowDtype(rows) ==
    LET dts == {ColumnDtype(rows, c) : c \in DOMAIN rows[1]}
    IN  IF "object" \in dts THEN "object"
        ELSE IF "float64" \in dts THEN "float64"
        ELSE "int64"

\* The row iterrows() yields: every cell converted to the row's dtype.
IterRow(rows, i) ==
    [c \in DOMAIN rows[i] |->
        IF RowDtype(rows) = "float64" THEN ToFloat64(rows[i][c]) ELSE rows[i][c]]

\* df["lat"].min(), df["lat"].max() (nan on an empty frame)
ColMin(rows, c) ==
    IF rows = <<>> THEN NaN
    ELSE CHOOSE v \in {rows[i][c] : i \in 1..Len(rows)} :
            \A i \in 1..Len(rows) : v.lo <= rows[i][c].lo

ColMax(rows, c) ==
    IF rows = <<>> THEN NaN
    ELSE CHOOSE v \in {rows[i][c] : i \in 1..Len(rows)} :
            \A i \in 1..Len(rows) : v.lo >= rows[i][c].lo

-----------------------------------------------------------------------------
(* Utility functions *)

\* os.path.join(IMAGE_DIR, name)
JoinPath(dir, name) == dir \o "/" \o name

\* lines 122-123
ImagePath(property_id) == JoinPath(IMAGE_DIR, PyFormat(property_id) \o ".png")

\* lines 41-50
build_mapbox_url(lat, lon) ==
    "https://api.mapbox.com/styles/v1/mapbox" \o "/" \o MAPBOX_STYLE \o "/static/"
        \o PyFormat(lon) \o "," \o PyFormat(lat) \o "," \o ToString(ZOOM_LEVEL)
        \o "/" \o IMAGE_SIZE \o "?access_token=" \o token


CapReachedOffByOne(n) == n > MAX_IMAGES

\* Whether the for loop stops at the cap, line 118
CapReached(n) == n >= MAX_IMAGES

-----------------------------------------------------------------------------
(* The image fetcher, lines 53-71.  An outcome is what the network and the  *)
(* disk do to one call: an HTTP response and whether the file can be       *)
(* written, or a requests.exceptions.RequestException.                     *)

StatusCodes == {200, 404, 500}
TransportErrors == {"ConnectionError", "Timeout"}
DiskResults == {"ok", "open_fails", "write_fails"}
ResponseContent == "png-bytes"
OldContent == "old-bytes"

Outcomes ==
    {[kind |-> "http", code |-> c, err |-> "", disk |-> d] :
        c \in StatusCodes \ {200}, d \in {"ok"}}
    \cup {[kind |-> "http", code |-> 200, err |-> "", disk |-> d] : d \in DiskResults}
    \cup {[kind |-> "exception", code |-> 0, err |-> e, disk |-> "ok"] :
            e \in TransportErrors}

\* open(save_path, "wb") creates or truncates the file, f.write fills it.
WriteFile(fs, path, content) == [p \in DOMAIN fs \cup {path} |->
                                    IF p = path THEN content ELSE fs[p]]

download_image_any_status(fs, url, save_path, o) ==
    IF o.kind = "http"
    THEN [ret |-> TRUE, raised |-> FALSE,
          files |-> WriteFile(fs, save_path, ResponseContent), out |-> <<>>]
    ELSE [ret |-> FALSE, raised |-> FALSE, files |-> fs,
          out |-> <<"Request error: " \o o.err>>]

\* The result of download_image(url, save_path) under outcome o: the value
\* returned, whether an exception left the function, the directory after
\* the call and the lines printed.
download_image(fs, url, save_path, o) ==
    IF o.kind = "exception"
    THEN [ret |-> FALSE, raised |-> FALSE, files |-> fs,
          out |-> <<"Request error: " \o o.err>>]
    ELSE IF o.code = 200
    THEN CASE o.disk = "ok" ->
                [ret |-> TRUE, raised |-> FALSE,
                 files |-> WriteFile(fs, save_path, ResponseContent), out |-> <<>>]
           [] o.disk = "open_fails" ->
                [ret |-> FALSE, raised |-> TRUE, files |-> fs, out |-> <<>>]
           [] OTHER ->
                [ret |-> FALSE, raised |-> TRUE,
                 files |-> WriteFile(fs, save_path, ""), out |-> <<>>]
    ELSE [ret |-> FALSE, raised |-> FALSE, files |-> fs,
          out |-> <<"Failed request with status code " \o ToString(o.code)>>]

AfterFetchPcSleepOnSuccessOnly(success) == IF success THEN "sleep" ELSE "loop"

\* After a fetch the loop always reaches time.sleep, line 141
AfterFetchPc(success) == "sleep"

-----------------------------------------------------------------------------
(* Inputs: the environment a run starts in *)

IntIds == {PyInt(0, 42), PyInt(1, 0), PyInt(1, 1)}
StrIds == {PyString("42"), PyString("a7")}
FloatCoords == {<<PyFloat(0, 47), PyFloat(0, -122)>>, <<PyFloat(0, 48), PyFloat(0, -122)>>,
                <<NaN, PyFloat(0, -122)>>, <<PyFloat(0, 47), NaN>>}
IntCoords == {<<PyInt(0, 47), PyInt(0, -122)>>}

CsvRow(id, co) == [id |-> id, lat |-> co[1], long |-> co[2], price |-> PyInt(0, 1)]

AllColumns == RequiredColumns \cup {"price"}

Tables(ids, coords, n) ==
    {[columns |-> AllColumns, rows |-> r] :
        r \in UNION {[1..k -> {CsvRow(i, c) : i \in ids, c \in coords}] : k \in 0..n}}

\* Tables that lack required columns
BadSchemaTables ==
    {[columns |-> {"id", "long", "price"},
      rows |-> <<[id |-> PyInt(0, 42), long |-> PyFloat(0, -122), price |-> PyInt(0, 1)]>>],
     [columns |-> {"lat"}, rows |-> <<[lat |-> PyFloat(0, 47)]>>],
     [columns |-> {"id", "lat"}, rows |-> <<>>]}

\* read_csv makes the id column an object column only when some id is not a
\* number; a column of numerals alone is read as int64.
IsNumeral(v) == v.s \in {"42"}

ObjectIdTables(coords, n) ==
    {t \in Tables(StrIds, coords, n) :
        t.rows = <<>> \/ \E i \in 1..Len(t.rows) : ~IsNumeral(t.rows[i]["id"])}

CsvFiles ==
    Tables(IntIds, FloatCoords, MaxRows) \cup ObjectIdTables(FloatCoords, MaxRows)
        \cup Tables(IntIds, IntCoords, MaxRows) \cup BadSchemaTables

PreExisting == {JoinPath(IMAGE_DIR, "42.png"), JoinPath(IMAGE_DIR, "42.0.png")}

Directories == {[p \in d |-> OldContent] : d \in SUBSET PreExisting}

NoResp == [kind |-> "none", code |-> 0, err |-> "", disk |-> "", url |-> "", path |-> ""]
NoExc == [type |-> "", msg |-> "", cols |-> {}]

Fresh ==
    /\ pc = "import"
    /\ df = <<>>
    /\ idx = 0
    /\ downloaded = 0
    /\ status = <<>>
    /\ requests = 0
    /\ sleeps = 0
    /\ resp = NoResp
    /\ out = <<>>
    /\ exc = NoExc

Init ==
    /\ token \in {None, TestToken}
    /\ csv \in CsvFiles
    /\ token = None => Len(csv.rows) <= 1
    /\ files \in Directories
    /\ files0 = files
    /\ run = 1
    /\ prevOk = {}
    /\ prevFail = {}
    /\ Fresh

-----------------------------------------------------------------------------
(* Module import, lines 9-37 *)

ImportOk ==
    /\ pc = "import"
    /\ token # None
    /\ pc' = "main"
    /\ UNCHANGED <<token, csv, files, df, idx, downloaded, status, requests, sleeps,
                   resp, out, exc, files0, run, prevOk, prevFail>>

ImportNoToken ==
    /\ pc = "import"
    /\ token = None
    /\ pc' = "aborted"
    /\ exc' = [type |-> "RuntimeError", msg |-> "MAPBOX_TOKEN not found.", cols |-> {}]
    /\ UNCHANGED <<token, csv, files, df, idx, downloaded, status, requests, sleeps,
                   resp, out, files0, run, prevOk, prevFail>>

-----------------------------------------------------------------------------
(* main(), lines 74-114: load and validate *)

Banner == <<"Starting satellite image fetching pipeline...",
            "Reading data from: " \o DATA_CSV_PATH,
            "Images will be saved to: " \o IMAGE_DIR,
            "Total rows in image subset: " \o ToString(Len(csv.rows))>>

MainMissingColumns ==
    /\ pc = "main"
    /\ RequiredColumns \ csv.columns # {}
    /\ pc' = "aborted"
    /\ out' = Banner
    /\ exc' = [type |-> "ValueError", msg |-> "Missing required columns",
               cols |-> RequiredColumns \ csv.columns]
    /\ UNCHANGED <<token, csv, files, df, idx, downloaded, status, requests, sleeps,
                   resp, files0, run, prevOk, prevFail>>

MainNullCoords ==
    /\ pc = "main"
    /\ RequiredColumns \ csv.columns = {}
    /\ HasNullCoords(Project(csv.rows))
    /\ pc' = "aborted"
    /\ out' = Banner
    /\ exc' = [type |-> "ValueError", msg |-> "Found missing latitude or longitude values",
               cols |-> {}]
    /\ UNCHANGED <<token, csv, files, df, idx, downloaded, status, requests, sleeps,
                   resp, files0, run, prevOk, prevFail>>

MainLoaded ==
    /\ pc = "main"
    /\ RequiredColumns \ csv.columns = {}
    /\ ~HasNullCoords(Project(csv.rows))
    /\ LET before == Project(csv.rows)
           after == DropDuplicates(before)
           removed == "Removed " \o ToString(Len(before) - Len(after))
                        \o " duplicate property IDs"
       IN  IF Duplicated(after)
           THEN /\ pc' = "aborted"
                /\ out' = Banner \o <<removed>>
                /\ exc' = [type |-> "ValueError", msg |-> "Duplicate property IDs found",
                           cols |-> {}]
                /\ UNCHANGED <<df, status>>
           ELSE /\ pc' = "loop"
                /\ df' = after
                /\ status' = [i \in 1..Len(after) |-> "none"]
                /\ out' = Banner \o
                     <<removed,
                       "Latitude range: " \o PyFormat(ColMin(after, "lat")) \o " to "
                            \o PyFormat(ColMax(after, "lat")),
                       "Longitude range: " \o PyFormat(ColMin(after, "long")) \o " to "
                            \o PyFormat(ColMax(after, "long")),
                       "Data validation complete.",
                       "Starting image download...">>
                /\ exc' = exc
    /\ downloaded' = 0
    /\ idx' = 0
    /\ UNCHANGED <<token, csv, files, requests, sleeps, resp, files0, run, prevOk, prevFail>>

-----------------------------------------------------------------------------
(* main(), lines 116-143: the download loop *)

FinalReport == "Image download completed. Total images downloaded: " \o ToString(downloaded)
CapReport == "Reached MAX_IMAGES limit. Stopping."
FailReport(property_id) ==
    "Failed to download image for property ID " \o PyFormat(property_id)

\* The iterator is exhausted: line 143
LoopExhausted ==
    /\ pc = "loop"
    /\ idx = Len(df)
    /\ pc' = "done"
    /\ out' = <<FinalReport>>
    /\ resp' = NoResp
    /\ UNCHANGED <<token, csv, files, df, idx, downloaded, status, requests, sleeps,
                   exc, files0, run, prevOk, prevFail>>

\* lines 116-120, 143
CapBreak ==
    /\ pc = "loop"
    /\ idx < Len(df)
    /\ CapReached(downloaded)
    /\ idx' = idx + 1
    /\ pc' = "done"
    /\ out' = <<CapReport, FinalReport>>
    /\ resp' = NoResp
    /\ UNCHANGED <<token, csv, files, df, downloaded, status, requests, sleeps,
                   exc, files0, run, prevOk, prevFail>>

\* lines 116-127
SkipExisting ==
    /\ pc = "loop"
    /\ idx < Len(df)
    /\ ~CapReached(downloaded)
    /\ LET row == IterRow(df, idx + 1)
           property_id == row["id"]
           image_path == ImagePath(property_id)
       IN  /\ image_path \in DOMAIN files
           /\ status' = [status EXCEPT ![idx + 1] = "skipped"]
    /\ idx' = idx + 1
    /\ pc' = "loop"
    /\ out' = <<>>
    /\ resp' = NoResp
    /\ UNCHANGED <<token, csv, files, df, downloaded, requests, sleeps,
                   exc, files0, run, prevOk, prevFail>>

\* lines 116-139: one request, and what main does with its result
Fetch ==
    /\ pc = "loop"
    /\ idx < Len(df)
    /\ ~CapReached(downloaded)
    /\ LET row == IterRow(df, idx + 1)
           property_id == row["id"]
           image_path == ImagePath(property_id)
           image_url == build_mapbox_url(row["lat"], row["long"])
       IN  /\ image_path \notin DOMAIN files
           /\ \E o \in Outcomes :
                LET r == download_image(files, image_url, image_path, o)
                IN  /\ files' = r.files
                    /\ resp' = [kind |-> o.kind, code |-> o.code, err |-> o.err,
                                disk |-> o.disk, url |-> image_url, path |-> image_path]
                    /\ IF r.raised
                       THEN /\ pc' = "crashed"
                            /\ exc' = [type |-> "OSError", msg |-> image_path, cols |-> {}]
                            /\ status' = [status EXCEPT ![idx + 1] = "raised"]
                            /\ downloaded' = downloaded
                            /\ out' = r.out
                       ELSE /\ pc' = AfterFetchPc(r.ret)
                            /\ exc' = exc
                            /\ status' = [status EXCEPT
                                            ![idx + 1] = IF r.ret THEN "ok" ELSE "fail"]
                            /\ downloaded' = IF r.ret THEN downloaded + 1 ELSE downloaded
                            /\ out' = IF r.ret THEN r.out
                                      ELSE r.out \o <<FailReport(property_id)>>
    /\ idx' = idx + 1
    /\ requests' = requests + 1
    /\ UNCHANGED <<token, csv, df, sleeps, files0, run, prevOk, prevFail>>

\* line 141
Sleep ==
    /\ pc = "sleep"
    /\ sleeps' = sleeps + 1
    /\ pc' = "loop"
    /\ out' = <<>>
    /\ resp' = NoResp
    /\ UNCHANGED <<token, csv, files, df, idx, downloaded, status, requests,
                   exc, files0, run, prevOk, prevFail>>

Next ==
    \/ ImportOk
    \/ ImportNoToken
    \/ MainMissingColumns
    \/ MainNullCoords
    \/ MainLoaded
    \/ LoopExhausted
    \/ CapBreak
    \/ SkipExisting
    \/ Fetch
    \/ Sleep

Spec == Init /\ [][Next]_vars

-----------------------------------------------------------------------------
(* Running the program again over the same dataset and image directory *)

Fetched(st) == {i \in 1..Len(st) : st[i] \in {"ok", "fail", "raised"}}
Succeeded(st) == {i \in 1..Len(st) : st[i] = "ok"}
Failed(st) == {i \in 1..Len(st) : st[i] = "fail"}

Rerun ==
    /\ pc \in {"done", "crashed"}
    /\ run < MaxRuns
    /\ run' = run + 1
    /\ prevOk' = prevOk \cup Succeeded(status)
    /\ prevFail' = (prevFail \ Succeeded(status)) \cup Failed(status)
    /\ files0' = files
    /\ pc' = "import"
    /\ df' = <<>>
    /\ idx' = 0
    /\ downloaded' = 0
    /\ status' = <<>>
    /\ requests' = 0
    /\ sleeps' = 0
    /\ resp' = NoResp
    /\ out' = <<>>
    /\ exc' = NoExc
    /\ UNCHANGED <<token, csv, files>>

RerunCoords == {<<PyFloat(0, 47), PyFloat(0, -122)>>}

RerunCsvFiles ==
    Tables(IntIds, RerunCoords, MaxRows) \cup ObjectIdTables(RerunCoords, MaxRows)
        \cup ObjectIdTables(FloatCoords, 1) \cup BadSchemaTables

InitRerun ==
    /\ token \in {None, TestToken}
    /\ csv \in RerunCsvFiles
    /\ token = None => Len(csv.rows) = 0
    /\ files \in Directories
    /\ files0 = files
    /\ run = 1
    /\ prevOk = {}
    /\ prevFail = {}
    /\ Fresh

NextRerun == Next \/ Rerun

SpecRerun == InitRerun /\ [][NextRerun]_vars

-----------------------------------------------------------------------------
(* Longer datasets of distinct records, for runs that go past the cap *)

CapId(kind, j) ==
    IF kind = "int" THEN PyInt(0, 41 + j) ELSE PyString("p" \o ToString(41 + j))

CapTables ==
    {[columns |-> AllColumns,
      rows |-> [j \in 1..k |-> CsvRow(CapId(kind, j), <<PyFloat(0, 47), PyFloat(0, -122)>>)]] :
        kind \in {"int", "str"}, k \in 0..(MaxRows + 2)}

CapCsvFiles == CapTables \cup ObjectIdTables(FloatCoords, 1) \cup BadSchemaTables

CapDirectories ==
    {[p \in d |-> OldContent] :
        d \in SUBSET {JoinPath(IMAGE_DIR, "42.0.png"), JoinPath(IMAGE_DIR, "p42.png"),
                      JoinPath(IMAGE_DIR, "44.0.png")}}

InitCap ==
    /\ token \in {None, TestToken}
    /\ csv \in CapCsvFiles
    /\ token = None => Len(csv.rows) = 0
    /\ files \in CapDirectories
    /\ files0 = files
    /\ run = 1
    /\ prevOk = {}
    /\ prevFail = {}
    /\ Fresh

SpecCap == InitCap /\ [][Next]_vars

-----------------------------------------------------------------------------
(* Vocabulary of the properties *)

Loaded == pc \in {"loop", "sleep", "done", "crashed"}

\* {imageDir}/{id}.png for row i of the working set, the id written as it
\* stands in the input.
IdPath(i) == JoinPath(IMAGE_DIR, PyFormat(df[i]["id"]) \o ".png")

NewFiles == DOMAIN files \ DOMAIN files0

LastLine == IF out = <<>> THEN "" ELSE out[Len(out)]

ReportOf(n) == "Image download completed. Total images downloaded: " \o ToString(n)

-----------------------------------------------------------------------------
(* C1 *)

\* C1: every record whose fetch succeeded has its image at exactly
\* {imageDir}/{id}.png, the id written as in the input, holding the response
\* body unchanged.
C1_ImageStoredAtIdPath ==
    \A i \in Succeeded(status) :
        /\ IdPath(i) \in DOMAIN files
        /\ files[IdPath(i)] = ResponseContent

-----------------------------------------------------------------------------
(* C2 *)

\* C2: when the driver reaches a record whose {id}.png exists, it issues no
\* fetch, does not increment downloaded and leaves the directory unchanged.
C2_ExistingImageIsSkipped ==
    [][(pc = "loop" /\ idx < Len(df) /\ IdPath(idx + 1) \in DOMAIN files)
          => (requests' = requests /\ downloaded' = downloaded /\ files' = files)]_vars

-----------------------------------------------------------------------------
(* C3 *)

\* C3: downloaded never exceeds MAX_IMAGES, and a loop iteration that starts
\* with downloaded >= MAX_IMAGES ends the loop: no record is fetched, checked
\* for existence or slept for after that.
C3_HardCap ==
    /\ [](downloaded <= MAX_IMAGES)
    /\ [][(pc = "loop" /\ downloaded >= MAX_IMAGES)
            => (pc' = "done" /\ status' = status /\ requests' = requests
                /\ sleeps' = sleeps /\ files' = files /\ downloaded' = downloaded)]_vars

\* The cap stopped a run after a skipped record, a failed fetch and
\* MAX_IMAGES downloads, and left the last record unexamined.
C3_Witness ==
    /\ pc = "done"
    /\ downloaded = MAX_IMAGES
    /\ out # <<>> /\ out[1] = CapReport
    /\ Len(df) = MAX_IMAGES + 3
    /\ status[1] = "skipped"
    /\ status[2] = "fail"
    /\ \A i \in 3..(MAX_IMAGES + 2) : status[i] = "ok"
    /\ status[Len(df)] = "none"

-----------------------------------------------------------------------------
(* C4 *)

\* C4: with no pre-existing image, more than MAX_IMAGES records and every
\* fetch succeeding, the run ends with exactly the first MAX_IMAGES records
\* downloaded, the cap reported and MAX_IMAGES in the final report.
C4_CapReachedExactly ==
    (/\ pc = "done"
     /\ DOMAIN files0 = {}
     /\ Len(df) > MAX_IMAGES
     /\ \A i \in 1..Len(df) : status[i] \notin {"fail", "raised"})
    => (/\ downloaded = MAX_IMAGES
        /\ Succeeded(status) = 1..MAX_IMAGES
        /\ out = <<CapReport, ReportOf(MAX_IMAGES)>>)

-----------------------------------------------------------------------------
(* C5 *)

-----------------------------------------------------------------------------
(* C6 *)

MissingCredential == token = None
MissingColumn == RequiredColumns \ csv.columns # {}
NullCoordinate ==
    /\ ~MissingColumn
    /\ \E i \in 1..Len(csv.rows) :
          csv.rows[i]["lat"].t = "nan" \/ csv.rows[i]["long"].t = "nan"
ResidualDuplicate ==
    \E i, j \in 1..Len(df) : i # j /\ df[i]["id"] = df[j]["id"]

\* C6: a missing credential, a missing required column, a null latitude or
\* longitude in any row, or a duplicate id left after deduplication keeps the
\* run from ever reaching the download loop: it aborts with no request issued
\* and no file written.
C6_PreflightErrorsAbortBeforeAnyDownload ==
    /\ (MissingCredential \/ MissingColumn \/ NullCoordinate \/ ResidualDuplicate)
          => (/\ pc \in {"import", "main", "aborted"}
              /\ requests = 0
              /\ files = files0
              /\ Succeeded(status) = {})
    /\ pc = "aborted" => (requests = 0 /\ files = files0 /\ exc # NoExc)

\* Aborted on a dataset in which only one of several rows has a null
\* longitude, with an image directory that is not empty.
C6_Witness ==
    /\ pc = "aborted"
    /\ token # None
    /\ ~MissingColumn
    /\ Len(csv.rows) = 3
    /\ Cardinality({i \in 1..Len(csv.rows) : csv.rows[i]["long"].t = "nan"}) = 1
    /\ \A i \in 1..Len(csv.rows) : csv.rows[i]["lat"].t # "nan"
    /\ DOMAIN files # {}

-----------------------------------------------------------------------------
(* C7 *)

\* Rows of the input that are the first with their id
FirstRows ==
    {i \in 1..Len(csv.rows) :
        \A j \in 1..(i - 1) : csv.rows[j]["id"] # csv.rows[i]["id"]}

\* C7: the working set is, in input order, exactly the first row of every
\* distinct id; no id occurs twice; deduplicating it again changes nothing.
C7_DedupKeepsFirstInOrder ==
    Loaded =>
        /\ Len(df) = Cardinality(FirstRows)
        /\ \A k \in 1..Len(df) :
              \E i \in FirstRows :
                 /\ Cardinality({j \in FirstRows : j < i}) = k - 1
                 /\ \A c \in RequiredColumns : df[k][c] = csv.rows[i][c]
        /\ ~ResidualDuplicate
        /\ DropDuplicates(df) = df

\* A loaded dataset whose first and last rows share an id but differ in
\* latitude, with another id between them.
C7_Witness ==
    /\ Loaded
    /\ Len(csv.rows) = 3
    /\ Len(df) = 2
    /\ csv.rows[1]["id"] = csv.rows[3]["id"]
    /\ csv.rows[1]["lat"] # csv.rows[3]["lat"]

-----------------------------------------------------------------------------
(* C8 *)

\* C8: whenever the driver is about to examine a record (or has finished),
\* every request made so far has been followed by exactly one delay and
\* nothing else was slept for; while it sleeps, exactly the last request is
\* still owed its delay.
C8_OneDelayPerRequest ==
    /\ pc \in {"loop", "done"} => sleeps = requests
    /\ pc = "sleep" => requests = sleeps + 1

\* A finished run with a skipped record, a failed fetch and a successful one.
C8_Witness ==
    /\ pc = "done"
    /\ \E i, j, k \in 1..Len(df) :
          status[i] = "skipped" /\ status[j] = "fail" /\ status[k] = "ok"
    /\ sleeps = 2

-----------------------------------------------------------------------------
(* C9 *)

\* C9: in one run a record is fetched at most once; a record whose fetch
\* succeeded in an earlier run is never fetched again; a record whose fetch
\* failed earlier is fetched again unless the cap ends the run first; and a
\* run after one in which every record succeeded fetches nothing and
\* reports 0.
C9_RetryOnlyByRerun ==
    /\ requests = Cardinality(Fetched(status))
    /\ Loaded => \A i \in prevOk : status[i] \in {"none", "skipped"}
    /\ pc = "done" =>
          \A i \in prevFail :
             \/ status[i] \in {"ok", "fail"}
             \/ (status[i] = "none" /\ CapReached(downloaded))
    /\ (pc = "done" /\ run > 1 /\ prevOk = 1..Len(df))
          => (requests = 0 /\ out = <<ReportOf(0)>>)

-----------------------------------------------------------------------------
(* C10 *)

\* C10: at the end of a run every file that was there before is unchanged,
\* the new files are exactly {id}.png of the records whose fetch returned
\* success, and the reported count is the number of new files.
C10_FrameOfARun ==
    pc = "done" =>
        /\ \A p \in DOMAIN files0 : p \in DOMAIN files /\ files[p] = files0[p]
        /\ NewFiles = {IdPath(i) : i \in Succeeded(status)}
        /\ LastLine = ReportOf(Cardinality(NewFiles))

====
